---- MODULE Spec2Model ----
(***************************************************************************)
(* Model of video_upload_backend/src/api/main.py: the upload handler       *)
(* upload_video (sanitise the client filename, resolve a collision-free    *)
(* target path, stream the body to disk under a size ceiling) and the      *)
(* filesystem the handler works on.                                        *)
(*                                                                         *)
(* Strings are sequences of one-character strings, paths are sequences of  *)
(* components (pathlib's parts without the anchor "/"), file contents are  *)
(* sequences of byte values.  Byte i of the body of upload number u is the *)
(* value 10*u + i, so that a file's content tells who wrote which byte.    *)
(***************************************************************************)
EXTENDS Integers, Sequences, FiniteSets, TLC

(***************************************************************************)
(* Bounds of the model.                                                    *)
(***************************************************************************)
NReq == 2          \* request slots (workers) that may be in flight together
MaxUploads == 2    \* requests one worker receives one after the other
ScaledLimit == 3   \* stand-in for the 500 MiB ceiling, in bytes
ScaledChunk == 2   \* stand-in for the 1 MiB read size, in bytes
MaxSrcLen == 4     \* longest request body, in bytes
MaxNameLen == 2    \* longest raw filename enumerated over Alphabet

Procs == 1..NReq

\* main.py:10   MAX_FILE_SIZE_BYTES = 500 * 1024 * 1024
MAX_FILE_SIZE_BYTES == ScaledLimit

\* read() without a size: one read returns all that is left of the body.
CHUNK_SIZE_whole == MaxSrcLen

\* main.py:88   upload_file.file.read(1024 * 1024)
CHUNK_SIZE == ScaledChunk

\* main.py:9    UPLOAD_DIR = Path("./upload").resolve(), taken as /upload
UPLOAD_DIR == << <<"u", "p", "l", "o", "a", "d">> >>

\* main.py:75 and :172   the literal "uploaded_file"
uploaded_file == <<"u", "p", "l", "o", "a", "d", "e", "d", "_", "f", "i", "l", "e">>

\* file.filename is None when the part carries no filename
None == <<"<None>">>

(***************************************************************************)
(* String helpers: str.rfind, str.replace, posixpath.basename, str(int).   *)
(***************************************************************************)
Max(a, b) == IF a >= b THEN a ELSE b

Min(a, b) == IF a <= b THEN a ELSE b

\* 1-based index of the last occurrence of c in s, 0 when there is none
\* (str.rfind(c) + 1).
rfind(s, c) ==
    LET hits == {i \in 1..Len(s) : s[i] = c}
    IN  IF hits = {} THEN 0 ELSE CHOOSE i \in hits : \A j \in hits : j <= i

\* str.replace(old, new) for one-character old and new.
replace(s, old, new) == [i \in 1..Len(s) |-> IF s[i] = old THEN new ELSE s[i]]

\* posixpath.basename: i = p.rfind('/') + 1; return p[i:]
basename(p) == SubSeq(p, rfind(p, "/") + 1, Len(p))

Digit(d) == CASE d = 0 -> "0" [] d = 1 -> "1" [] d = 2 -> "2" [] d = 3 -> "3"
              [] d = 4 -> "4" [] d = 5 -> "5" [] d = 6 -> "6" [] d = 7 -> "7"
              [] d = 8 -> "8" [] d = 9 -> "9"

\* str(n) of a non-negative integer: its decimal digits.
RECURSIVE IntToStr(_)
IntToStr(n) == IF n < 10 THEN <<Digit(n)>> ELSE IntToStr(n \div 10) \o <<Digit(n % 10)>>

\* _safe_filename without lines 71 and 73: the client's name is used as sent.
_safe_filename_raw(filename) ==
    IF filename = <<>> THEN uploaded_file ELSE filename

\* _safe_filename without the default of line 75.
_safe_filename_nodefault(filename) ==
    replace(replace(basename(filename), "/", "_"), "\\", "_")

(***************************************************************************)
(* main.py:66-75   _safe_filename                                          *)
(***************************************************************************)
_safe_filename(filename) ==
    LET name == replace(replace(basename(filename), "/", "_"), "\\", "_")
    IN  IF name = <<>> THEN uploaded_file ELSE name

(***************************************************************************)
(* pathlib: the / operator, .name, .stem, .suffix                          *)
(***************************************************************************)
\* The components of a path string: split on "/", "" and "." dropped,
\* ".." kept (pathlib never collapses it).
RECURSIVE PathParts(_)
PathParts(s) ==
    IF s = <<>> THEN <<>>
    ELSE LET cut  == IF \E i \in 1..Len(s) : s[i] = "/"
                     THEN CHOOSE i \in 1..Len(s) :
                              s[i] = "/" /\ \A j \in 1..(i - 1) : s[j] # "/"
                     ELSE Len(s) + 1
             head == SubSeq(s, 1, cut - 1)
             rest == PathParts(SubSeq(s, cut + 1, Len(s)))
         IN  IF head = <<>> \/ head = <<".">> THEN rest ELSE <<head>> \o rest

\* base / s : an absolute s replaces base, anything else is appended.
PathJoin(base, s) ==
    IF s # <<>> /\ s[1] = "/" THEN PathParts(s) ELSE base \o PathParts(s)

\* PurePath.name: the last component ("" for the anchor).
PathName(p) == IF p = <<>> THEN <<>> ELSE p[Len(p)]

\* PurePath.suffix: i = name.rfind('.'); name[i:] if 0 < i < len(name) - 1
suffix(p) ==
    LET name == PathName(p)
        j    == rfind(name, ".")
    IN  IF 1 < j /\ j < Len(name) THEN SubSeq(name, j, Len(name)) ELSE <<>>

\* PurePath.stem: name[:i] under the same condition, else the whole name.
stem(p) ==
    LET name == PathName(p)
        j    == rfind(name, ".")
    IN  IF 1 < j /\ j < Len(name) THEN SubSeq(name, 1, j - 1) ELSE name

\* The candidate name with the counter one ahead (a loop that counts first).
Candidate_skip(path, n) ==
    PathJoin(UPLOAD_DIR, stem(path) \o <<"_">> \o IntToStr(n + 1) \o suffix(path))

\* main.py:182   UPLOAD_DIR / f"{stem}_{counter}{suffix}"
Candidate(path, n) ==
    PathJoin(UPLOAD_DIR, stem(path) \o <<"_">> \o IntToStr(n) \o suffix(path))

\* main.py:172-174   original_name, safe_name, target_path
FirstTarget(filename) ==
    LET original_name == IF filename = None \/ filename = <<>>
                         THEN uploaded_file ELSE filename
    IN  PathJoin(UPLOAD_DIR, _safe_filename(original_name))

(***************************************************************************)
(* State.                                                                  *)
(*   dir       the upload root: stored name -> inode number                *)
(*   data      inode number -> content (an inode outlives its unlink while *)
(*             a writer still holds it open)                               *)
(*   pc        where each request slot stands in upload_video              *)
(*   filename  file.filename of the request                                *)
(*   body      the bytes of file.file, pos its read position               *)
(*   total, chunk, target, counter   the locals of the same names          *)
(*   fd, offset   the inode and write position of out_file (fd 0: not open)*)
(*   status    HTTP status of the response (0: none yet)                   *)
(*   exc       the call whose exception the request is unwinding from      *)
(*   cleanup   what became of the unlink of the partial file               *)
(*   upload    the number of the request a slot is serving                 *)
(*   received  requests received so far                                    *)
(*   resolved  history: the target paths name resolution has returned      *)
(*   stored    history: the bodies of the 200 answers sent, in order       *)
(*   seeks     history: the calls of upload_file.file.seek the request made*)
(***************************************************************************)
VARIABLES dir, data, pc, filename, body, pos, total, chunk, target, counter,
          fd, offset, status, exc, cleanup, upload, received, resolved, stored,
          seeks

vars == <<dir, data, pc, filename, body, pos, total, chunk, target, counter,
          fd, offset, status, exc, cleanup, upload, received, resolved, stored,
          seeks>>

Alphabet == {"/", "\\", ".", "a"}

RECURSIVE StringsUpTo(_)
StringsUpTo(n) ==
    IF n = 0 THEN {<<>>}
    ELSE LET shorter == StringsUpTo(n - 1)
         IN  shorter \cup {Append(s, c) : s \in {t \in shorter : Len(t) = n - 1},
                                           c \in Alphabet}

\* '../../e.m' and 'c.m' stand for '../../evil.mp4' and 'clip.mp4'.
ScenarioNames ==
    { <<"c", ".", "m">>,
      <<".", ".", "/", ".", ".", "/", "e", ".", "m">>,
      <<"/", "e", "t", "c", "/", "p">>,
      <<"a", "\\", ".", ".", "\\", "b">> }

\* Every raw filename a single request is tried with.
RawNames == StringsUpTo(MaxNameLen) \cup ScenarioNames \cup {None}

\* The raw filenames of the requests that follow one another.
RepeatNames == { <<"c", ".", "m">>, <<".">> }

\* The raw filenames of the requests that race one another.
RaceNames == { <<"c", ".", "m">> }

\* Files that may be in the upload root before the first request.
SeedNames == << <<"c", ".", "m">>, <<"c", "_", "1", ".", "m">>, <<"a">>,
                uploaded_file, uploaded_file \o <<"_", "1">> >>

\* What a seed file holds: one byte that no request body contains.
SeedContent == <<99>>

\* Inode numbers: upload u creates inode u, seed file i has inode 100 + i.
SeedInode(i) == 100 + i

BodyOf(u, len) == [i \in 1..len |-> 10 * u + i]

\* The length of a body that stands for a source without end: more bytes
\* than the writer reads of any source before it gives up.
LongSrcLen == MAX_FILE_SIZE_BYTES + 2 * CHUNK_SIZE

(***************************************************************************)
(* The file system under UPLOAD_DIR.                                       *)
(***************************************************************************)
\* A path that names an entry of the upload root itself.
IsChild(p) ==
    /\ Len(p) = Len(UPLOAD_DIR) + 1
    /\ SubSeq(p, 1, Len(UPLOAD_DIR)) = UPLOAD_DIR
    /\ PathName(p) # <<".", ".">>

\* An existence check that sees the directories but none of the files.
exists_dirsOnly(d, p) ==
    \/ Len(p) <= Len(UPLOAD_DIR) /\ p = SubSeq(UPLOAD_DIR, 1, Len(p))
    \/ p = UPLOAD_DIR \o << <<".", ".">> >>

\* Path.exists(): the root (made by _ensure_upload_dir_exists) and its
\* ancestors exist, an entry of the root exists when the directory lists it.
\* Nothing else is part of the modelled file system.
exists(d, p) ==
    \/ Len(p) <= Len(UPLOAD_DIR) /\ p = SubSeq(UPLOAD_DIR, 1, Len(p))
    \/ p = UPLOAD_DIR \o << <<".", ".">> >>
    \/ IsChild(p) /\ PathName(p) \in DOMAIN d

\* An unlink that takes the neighbouring entries of the root along.
unlink_all(d, p) ==
    IF IsChild(p) /\ PathName(p) \in DOMAIN d THEN << >> ELSE d

\* An unlink that removes nothing.
unlink_noop(d, p) == d

\* Path.unlink(missing_ok=True) on an entry of the root.
unlink(d, p) ==
    IF IsChild(p) /\ PathName(p) \in DOMAIN d
    THEN [n \in DOMAIN d \ {PathName(p)} |-> d[n]]
    ELSE d

\* A write that replaces the file by the chunk (the write position lost).
WriteAt_replace(content, off, bytes) == bytes

\* pwrite of bytes at position off: overwrites in place, extends the file,
\* zero-fills a hole left by a truncation under the writer.
WriteAt(content, off, bytes) ==
    [i \in 1..Max(Len(content), off + Len(bytes)) |->
        IF off < i /\ i <= off + Len(bytes) THEN bytes[i - off]
        ELSE IF i <= Len(content) THEN content[i]
        ELSE 0]

Content(p) == data[dir[PathName(p)]]

\* An inode is freed once no directory entry and no open file refers to it.
Reap(d, dt, fds) ==
    LET live == {d[n] : n \in DOMAIN d} \cup {fds[q] : q \in Procs}
    IN  [i \in DOMAIN dt \cap live |-> dt[i]]

(***************************************************************************)
(* The state before the first request: every slot idle, the upload root    *)
(* holding any subset of the first count seeds.                           *)
(***************************************************************************)
Start(count) ==
    /\ \E seeds \in SUBSET (1..count) :
          /\ dir = [n \in {SeedNames[i] : i \in seeds} |->
                       SeedInode(CHOOSE i \in seeds : SeedNames[i] = n)]
          /\ data = [ino \in {SeedInode(i) : i \in seeds} |-> SeedContent]
    /\ pc = [r \in Procs |-> "idle"]
    /\ filename = [r \in Procs |-> None]
    /\ body = [r \in Procs |-> <<>>]
    /\ pos = [r \in Procs |-> 0]
    /\ total = [r \in Procs |-> 0]
    /\ chunk = [r \in Procs |-> <<>>]
    /\ target = [r \in Procs |-> <<>>]
    /\ counter = [r \in Procs |-> 0]
    /\ fd = [r \in Procs |-> 0]
    /\ offset = [r \in Procs |-> 0]
    /\ status = [r \in Procs |-> 0]
    /\ exc = [r \in Procs |-> "none"]
    /\ cleanup = [r \in Procs |-> "none"]
    /\ upload = [r \in Procs |-> 0]
    /\ received = 0
    /\ resolved = <<>>
    /\ stored = <<>>
    /\ seeks = [r \in Procs |-> 0]

Init == Start(2)

InitRace == Start(1)

InitNames == Start(Len(SeedNames))

\* main.py:191-195   the body of the 200 answer
UploadResponse(r) ==
    [filename |-> PathName(target[r]), size_bytes |-> total[r]]

(***************************************************************************)
(* main.py:155, 169   a request arrives with a filename and a body;        *)
(* _ensure_upload_dir_exists answers 500 when the root cannot be made.     *)
(***************************************************************************)
Receive(r, names, quota) ==
    /\ pc[r] = "idle"
    /\ received < quota
    /\ \E name \in names, len \in 0..MaxSrcLen, mkdirFails \in BOOLEAN :
          /\ received' = received + 1
          /\ upload' = [upload EXCEPT ![r] = received + 1]
          /\ filename' = [filename EXCEPT ![r] = name]
          /\ body' = [body EXCEPT ![r] = BodyOf(received + 1, len)]
          /\ IF mkdirFails
             THEN /\ status' = [status EXCEPT ![r] = 500]
                  /\ exc' = [exc EXCEPT ![r] = "mkdir"]
                  /\ pc' = [pc EXCEPT ![r] = "done"]
             ELSE /\ pc' = [pc EXCEPT ![r] = "resolve"]
                  /\ UNCHANGED <<status, exc>>
    /\ UNCHANGED <<dir, data, pos, total, chunk, target, counter, fd, offset,
                   cleanup, resolved, stored, seeks>>

(***************************************************************************)
(* main.py:155, 169   the same arrival, the body being one of the bounded   *)
(* ones or a source that has not ended when the writer stops reading.      *)
(***************************************************************************)
ReceiveStream(r, names, quota) ==
    /\ pc[r] = "idle"
    /\ received < quota
    /\ \E name \in names, len \in (0..MaxSrcLen) \cup {LongSrcLen},
          mkdirFails \in BOOLEAN :
          /\ received' = received + 1
          /\ upload' = [upload EXCEPT ![r] = received + 1]
          /\ filename' = [filename EXCEPT ![r] = name]
          /\ body' = [body EXCEPT ![r] = BodyOf(received + 1, len)]
          /\ IF mkdirFails
             THEN /\ status' = [status EXCEPT ![r] = 500]
                  /\ exc' = [exc EXCEPT ![r] = "mkdir"]
                  /\ pc' = [pc EXCEPT ![r] = "done"]
             ELSE /\ pc' = [pc EXCEPT ![r] = "resolve"]
                  /\ UNCHANGED <<status, exc>>
    /\ UNCHANGED <<dir, data, pos, total, chunk, target, counter, fd, offset,
                   cleanup, resolved, stored, seeks>>

(***************************************************************************)
(* main.py:172-180   sanitise, join, first existence check                 *)
(***************************************************************************)
Resolve(r) ==
    /\ pc[r] = "resolve"
    /\ LET target_path == FirstTarget(filename[r])
       IN  /\ target' = [target EXCEPT ![r] = target_path]
           /\ IF exists(dir, target_path)
              THEN /\ counter' = [counter EXCEPT ![r] = 1]
                   /\ pc' = [pc EXCEPT ![r] = "probe"]
                   /\ UNCHANGED resolved
              ELSE /\ pc' = [pc EXCEPT ![r] = "open"]
                   /\ resolved' = Append(resolved, target_path)
                   /\ UNCHANGED counter
    /\ UNCHANGED <<dir, data, filename, body, pos, total, chunk, fd, offset,
                   status, exc, cleanup, upload, received, stored, seeks>>

(***************************************************************************)
(* main.py:181-186   one turn of the suffix loop; stem and suffix are      *)
(* those of the first target_path, which target keeps until the break.     *)
(***************************************************************************)
Probe(r) ==
    /\ pc[r] = "probe"
    /\ LET candidate == Candidate(target[r], counter[r])
       IN  IF ~exists(dir, candidate)
           THEN /\ target' = [target EXCEPT ![r] = candidate]
                /\ pc' = [pc EXCEPT ![r] = "open"]
                /\ resolved' = Append(resolved, candidate)
                /\ UNCHANGED counter
           ELSE /\ counter' = [counter EXCEPT ![r] = counter[r] + 1]
                /\ UNCHANGED <<target, pc, resolved>>
    /\ UNCHANGED <<dir, data, filename, body, pos, total, chunk, fd, offset,
                   status, exc, cleanup, upload, received, stored, seeks>>

(***************************************************************************)
(* main.py:83-86   total = 0; target_path.open("wb"): O_CREAT | O_TRUNC,   *)
(* so an existing file is emptied and reused.  Opening fails on an I/O     *)
(* error and on a path that is no entry of the root (a directory).         *)
(***************************************************************************)
Open(r) ==
    /\ pc[r] = "open"
    /\ total' = [total EXCEPT ![r] = 0]
    /\ \E ioError \in BOOLEAN :
          IF ioError \/ ~IsChild(target[r])
          THEN /\ pc' = [pc EXCEPT ![r] = "except"]
               /\ exc' = [exc EXCEPT ![r] = "open"]
               /\ UNCHANGED <<dir, data, fd, offset>>
          ELSE LET name == PathName(target[r])
                   ino  == IF name \in DOMAIN dir THEN dir[name] ELSE upload[r]
               IN  /\ dir' = [n \in DOMAIN dir \cup {name} |->
                                 IF n = name THEN ino ELSE dir[n]]
                   /\ data' = [i \in DOMAIN data \cup {ino} |->
                                 IF i = ino THEN <<>> ELSE data[i]]
                   /\ fd' = [fd EXCEPT ![r] = ino]
                   /\ offset' = [offset EXCEPT ![r] = 0]
                   /\ pc' = [pc EXCEPT ![r] = "read"]
                   /\ UNCHANGED exc
    /\ UNCHANGED <<filename, body, pos, chunk, target, counter, status, cleanup,
                   upload, received, resolved, stored, seeks>>

\* Line 92 without the comparison: no total is too large.
TooLarge_never(size) == FALSE

\* The comparison of line 92 made one chunk late.
TooLarge_late(size) == size > MAX_FILE_SIZE_BYTES + CHUNK_SIZE

\* The comparison of line 92 with >= in place of >.
TooLarge_inclusive(size) == size >= MAX_FILE_SIZE_BYTES

\* main.py:92   if total > MAX_FILE_SIZE_BYTES
TooLarge(size) == size > MAX_FILE_SIZE_BYTES

(***************************************************************************)
(* main.py:88-92   read one chunk of at most CHUNK_SIZE bytes (a read may  *)
(* come back short), stop at the empty chunk, add to total, compare.       *)
(* An exception leaves the with block, which closes out_file.              *)
(***************************************************************************)
Read(r) ==
    /\ pc[r] = "read"
    /\ \E ioError \in BOOLEAN :
          IF ioError
          THEN /\ pc' = [pc EXCEPT ![r] = "except"]
               /\ exc' = [exc EXCEPT ![r] = "read"]
               /\ fd' = [fd EXCEPT ![r] = 0]
               /\ data' = Reap(dir, data, fd')
               /\ UNCHANGED <<pos, total, chunk>>
          ELSE LET remaining == Len(body[r]) - pos[r]
               IN  \E k \in IF remaining = 0 THEN {0}
                            ELSE 1..Min(CHUNK_SIZE, remaining) :
                      /\ chunk' = [chunk EXCEPT ![r] =
                                      SubSeq(body[r], pos[r] + 1, pos[r] + k)]
                      /\ pos' = [pos EXCEPT ![r] = pos[r] + k]
                      /\ IF k = 0
                         THEN /\ pc' = [pc EXCEPT ![r] = "close"]
                              /\ UNCHANGED total
                         ELSE /\ total' = [total EXCEPT ![r] = total[r] + k]
                              /\ pc' = [pc EXCEPT ![r] =
                                    IF TooLarge(total[r] + k)
                                    THEN "overflow" ELSE "write"]
                      /\ UNCHANGED <<fd, data, exc>>
    /\ UNCHANGED <<dir, filename, body, target, counter, offset, status,
                   cleanup, upload, received, resolved, stored, seeks>>

(***************************************************************************)
(* main.py:93-102   total > MAX_FILE_SIZE_BYTES: close, unlink (a failure  *)
(* of the unlink is swallowed), raise 413.  A failing close is an ordinary *)
(* exception and goes to the handler of line 106.                          *)
(***************************************************************************)
Overflow(r) ==
    /\ pc[r] = "overflow"
    /\ fd' = [fd EXCEPT ![r] = 0]
    /\ \E closeFails \in BOOLEAN, unlinkFails \in BOOLEAN :
          IF closeFails
          THEN /\ pc' = [pc EXCEPT ![r] = "except"]
               /\ exc' = [exc EXCEPT ![r] = "close"]
               /\ data' = Reap(dir, data, fd')
               /\ UNCHANGED <<dir, status, cleanup>>
          ELSE /\ dir' = IF unlinkFails THEN dir ELSE unlink(dir, target[r])
               /\ cleanup' = [cleanup EXCEPT ![r] =
                                 IF unlinkFails THEN "failed" ELSE "done"]
               /\ data' = Reap(dir', data, fd')
               /\ status' = [status EXCEPT ![r] = 413]
               /\ pc' = [pc EXCEPT ![r] = "finally"]
               /\ UNCHANGED exc
    /\ UNCHANGED <<filename, body, pos, total, chunk, target, counter, offset,
                   upload, received, resolved, stored, seeks>>

(***************************************************************************)
(* main.py:103   out_file.write(chunk)                                     *)
(***************************************************************************)
Write(r) ==
    /\ pc[r] = "write"
    /\ \E ioError \in BOOLEAN :
          IF ioError
          THEN /\ pc' = [pc EXCEPT ![r] = "except"]
               /\ exc' = [exc EXCEPT ![r] = "write"]
               /\ fd' = [fd EXCEPT ![r] = 0]
               /\ data' = Reap(dir, data, fd')
               /\ UNCHANGED offset
          ELSE /\ data' = [data EXCEPT ![fd[r]] = WriteAt(@, offset[r], chunk[r])]
               /\ offset' = [offset EXCEPT ![r] = offset[r] + Len(chunk[r])]
               /\ pc' = [pc EXCEPT ![r] = "read"]
               /\ UNCHANGED <<fd, exc>>
    /\ UNCHANGED <<dir, filename, body, pos, total, chunk, target, counter,
                   status, cleanup, upload, received, resolved, stored, seeks>>

(***************************************************************************)
(* main.py:86, 90   break, then the with block closes out_file; the flush  *)
(* of the close may fail like any write.                                   *)
(***************************************************************************)
Close(r) ==
    /\ pc[r] = "close"
    /\ fd' = [fd EXCEPT ![r] = 0]
    /\ data' = Reap(dir, data, fd')
    /\ \E ioError \in BOOLEAN :
          IF ioError
          THEN /\ pc' = [pc EXCEPT ![r] = "except"]
               /\ exc' = [exc EXCEPT ![r] = "close"]
               /\ UNCHANGED status
          ELSE /\ pc' = [pc EXCEPT ![r] = "finally"]
               /\ status' = [status EXCEPT ![r] = 200]
               /\ UNCHANGED exc
    /\ UNCHANGED <<dir, filename, body, pos, total, chunk, target, counter,
                   offset, cleanup, upload, received, resolved, stored, seeks>>

\* The handler of line 106 without its unlink.
Except_noCleanup(r) ==
    /\ pc[r] = "except"
    /\ status' = [status EXCEPT ![r] = 500]
    /\ pc' = [pc EXCEPT ![r] = "finally"]
    /\ UNCHANGED <<dir, data, filename, body, pos, total, chunk, target,
                   counter, fd, offset, exc, cleanup, upload, received,
                   resolved, stored, seeks>>

(***************************************************************************)
(* main.py:106-115   any other exception: unlink (a failure of the unlink  *)
(* is swallowed), raise 500.                                               *)
(***************************************************************************)
Except(r) ==
    /\ pc[r] = "except"
    /\ \E unlinkFails \in BOOLEAN :
          /\ dir' = IF unlinkFails THEN dir ELSE unlink(dir, target[r])
          /\ cleanup' = [cleanup EXCEPT ![r] =
                            IF unlinkFails THEN "failed" ELSE "done"]
    /\ data' = Reap(dir', data, fd)
    /\ status' = [status EXCEPT ![r] = 500]
    /\ pc' = [pc EXCEPT ![r] = "finally"]
    /\ UNCHANGED <<filename, body, pos, total, chunk, target, counter, fd,
                   offset, exc, upload, received, resolved>>
    /\ UNCHANGED <<stored, seeks>>

\* The finally block without its try/except: a seek that fails replaces the
\* outcome by an error.
Finally_surfacing(r) ==
    /\ pc[r] = "finally"
    /\ \E seekFails \in BOOLEAN :
          /\ pos' = [pos EXCEPT ![r] = IF seekFails THEN pos[r] ELSE 0]
          /\ status' = [status EXCEPT ![r] = IF seekFails THEN 500 ELSE status[r]]
          /\ stored' = IF status[r] = 200 /\ ~seekFails
                       THEN Append(stored, UploadResponse(r)) ELSE stored
    /\ seeks' = [seeks EXCEPT ![r] = seeks[r] + 1]
    /\ pc' = [pc EXCEPT ![r] = "done"]
    /\ UNCHANGED <<dir, data, filename, body, total, chunk, target, counter,
                   fd, offset, exc, cleanup, upload, received, resolved>>

(***************************************************************************)
(* main.py:116-123, 189-195   finally: seek(0), its failure swallowed;     *)
(* then the size is returned or the exception leaves, and upload_video     *)
(* answers.                                                                *)
(***************************************************************************)
Finally(r) ==
    /\ pc[r] = "finally"
    /\ \E seekFails \in BOOLEAN :
          pos' = [pos EXCEPT ![r] = IF seekFails THEN pos[r] ELSE 0]
    /\ seeks' = [seeks EXCEPT ![r] = seeks[r] + 1]
    /\ stored' = IF status[r] = 200 THEN Append(stored, UploadResponse(r))
                 ELSE stored
    /\ pc' = [pc EXCEPT ![r] = "done"]
    /\ UNCHANGED <<dir, data, filename, body, total, chunk, target, counter,
                   fd, offset, status, exc, cleanup, upload, received,
                   resolved>>

\* The slot is free for the next request; its locals are gone.
Retire(r) ==
    /\ pc[r] = "done"
    /\ pc' = [pc EXCEPT ![r] = "idle"]
    /\ filename' = [filename EXCEPT ![r] = None]
    /\ body' = [body EXCEPT ![r] = <<>>]
    /\ pos' = [pos EXCEPT ![r] = 0]
    /\ total' = [total EXCEPT ![r] = 0]
    /\ chunk' = [chunk EXCEPT ![r] = <<>>]
    /\ target' = [target EXCEPT ![r] = <<>>]
    /\ counter' = [counter EXCEPT ![r] = 0]
    /\ offset' = [offset EXCEPT ![r] = 0]
    /\ status' = [status EXCEPT ![r] = 0]
    /\ exc' = [exc EXCEPT ![r] = "none"]
    /\ cleanup' = [cleanup EXCEPT ![r] = "none"]
    /\ upload' = [upload EXCEPT ![r] = 0]
    /\ seeks' = [seeks EXCEPT ![r] = 0]
    /\ UNCHANGED <<dir, data, fd, received, resolved, stored>>

\* One step of slot r of upload_video after the request has arrived.
Handle(r) ==
    \/ Resolve(r)
    \/ Probe(r)
    \/ Open(r)
    \/ Read(r)
    \/ Overflow(r)
    \/ Write(r)
    \/ Close(r)
    \/ Except(r)
    \/ Finally(r)
    \/ Retire(r)

(***************************************************************************)
(* Spec: NReq workers share the upload root and interleave at every file   *)
(* system call (one process per worker); worker r serves request r.        *)
(***************************************************************************)
Next ==
    \E r \in Procs :
        \/ received = r - 1 /\ Receive(r, RaceNames, NReq)
        \/ Handle(r)

Spec == InitRace /\ [][Next]_vars

(***************************************************************************)
(* SpecSeq: one worker, one request after the other (upload_video has no   *)
(* await, so one event loop runs each request to its end).                 *)
(***************************************************************************)
NextSeq == Receive(1, RepeatNames, MaxUploads) \/ Handle(1)

SpecSeq == Init /\ [][NextSeq]_vars

(***************************************************************************)
(* SpecNames: one request with any raw filename of RawNames.               *)
(***************************************************************************)
NextNames == Receive(1, RawNames, 1) \/ Handle(1)

SpecNames == InitNames /\ [][NextNames]_vars

(***************************************************************************)
(* SpecLive: one request, from every content of the root Init allows, in a *)
(* worker that is never stopped for good while the request is in the       *)
(* handler (upload_video has no await and no lock to wait on, and every    *)
(* call it makes returns or raises); the source may be without end.        *)
(***************************************************************************)
NextLive == ReceiveStream(1, RepeatNames, 1) \/ Handle(1)

SpecLive == Init /\ [][NextLive]_vars /\ WF_vars(Handle(1))

(***************************************************************************)
(* Properties.                                                             *)
(***************************************************************************)
IsPrefix(a, b) == Len(a) <= Len(b) /\ SubSeq(b, 1, Len(a)) = a

\* The entry of the upload root that path p names is there.
Present(p) ==
    /\ Len(p) = Len(UPLOAD_DIR) + 1
    /\ SubSeq(p, 1, Len(UPLOAD_DIR)) = UPLOAD_DIR
    /\ PathName(p) \in DOMAIN dir

\* Slot r has answered a request that got as far as calling the writer.
WriterReturned(r) == pc[r] = "done" /\ exc[r] # "mkdir"

\* C1 (as claimed): when requests race for one target path the open fails for
\* the one that finds the path taken: every open that succeeds has created the
\* file, no file ever loses or changes a byte it held, and two requests never
\* both answer 200 for the same path.
C1_ExclusiveCreate ==
    [][ /\ \A r \in Procs :
              pc[r] = "open" /\ pc'[r] = "read" => ~Present(target[r])
        /\ \A ino \in DOMAIN data \cap DOMAIN data' :
              IsPrefix(data[ino], data'[ino])
        /\ \A r \in Procs, q \in Procs :
              r # q /\ pc'[r] = "done" /\ pc'[q] = "done"
                    /\ target'[r] = target'[q] /\ status'[r] = 200
              => status'[q] # 200 ]_vars

C3_LimitIsInclusive ==
    \A r \in Procs :
        pc[r] = "done" /\ exc[r] = "none"
        => /\ status[r] = 200 <=> Len(body[r]) <= MAX_FILE_SIZE_BYTES
           /\ status[r] = 413 <=> Len(body[r]) > MAX_FILE_SIZE_BYTES

\* A body of limit + 1 bytes rejected after a body of exactly the limit was
\* stored.
C3_Witness ==
    \E r \in Procs :
        /\ pc[r] = "done" /\ exc[r] = "none" /\ status[r] = 413
        /\ Len(body[r]) = MAX_FILE_SIZE_BYTES + 1
        /\ \E i \in 1..Len(stored) : stored[i].size_bytes = MAX_FILE_SIZE_BYTES

\* C4: whenever the writer has returned success, the file at the target holds
\* exactly the body, byte for byte and in order, and the size returned is the
\* length of the body.
C4_RoundTrip ==
    \A r \in Procs :
        pc[r] = "done" /\ status[r] = 200
        => /\ Present(target[r])
           /\ Content(target[r]) = body[r]
           /\ total[r] = Len(body[r])

\* A body of exactly the limit (more than one chunk) stored and read back.
C4_Witness ==
    \E r \in Procs :
        /\ pc[r] = "done" /\ status[r] = 200
        /\ Len(body[r]) = MAX_FILE_SIZE_BYTES
        /\ Len(body[r]) > CHUNK_SIZE
        /\ Content(target[r]) = body[r]

\* Name resolution is over for the request of slot r.
NameResolved(r) == pc[r] \notin {"idle", "resolve", "probe"} /\ exc[r] # "mkdir"

\* p is an entry of the upload root: one component below it, that component
\* a plain name.
DirectChild(p) ==
    /\ Len(p) = Len(UPLOAD_DIR) + 1
    /\ SubSeq(p, 1, Len(UPLOAD_DIR)) = UPLOAD_DIR
    /\ PathName(p) \notin {<<>>, <<".">>, <<".", ".">>}
    /\ \A i \in 1..Len(PathName(p)) : PathName(p)[i] # "/"

EvilName == <<".", ".", "/", ".", ".", "/", "e", ".", "m">>

\* C5: for every raw filename and every content of the upload root, the
\* resolved target is a direct child of the root, never the root or a path
\* outside it; '../../e.m' resolves to <root>/e.m.
C5_TargetInsideRoot ==
    \A r \in Procs :
        NameResolved(r)
        => /\ DirectChild(target[r])
           /\ filename[r] = EvilName =>
                 target[r] = UPLOAD_DIR \o << <<"e", ".", "m">> >>

\* The traversal name stored as <root>/e.m.
C5_Witness ==
    \E r \in Procs :
        /\ filename[r] = EvilName
        /\ pc[r] = "done" /\ status[r] = 200
        /\ target[r] = UPLOAD_DIR \o << <<"e", ".", "m">> >>
        /\ Present(target[r])

\* C6: the path name resolution returns is not in the root when it is
\* checked, and it differs from every path returned before whose file is in
\* the root at that time.
C6_FreshAndDistinct ==
    [][ \A r \in Procs :
            pc[r] \in {"resolve", "probe"} /\ pc'[r] = "open"
            => /\ ~Present(target'[r])
               /\ \A i \in 1..Len(resolved) :
                     Present(resolved[i]) => resolved[i] # target'[r] ]_vars

ClipName(k) ==
    IF k = 0 THEN <<"c", ".", "m">>
    ELSE <<"c", "_">> \o IntToStr(k) \o <<".", "m">>

\* Resolutions of 'c.m' one after the other, each file created before the
\* next: different paths, all in the root.
C6_Witness ==
    /\ Len(resolved) = MaxUploads
    /\ \A i \in 1..Len(resolved) : Present(resolved[i])
    /\ \A i \in 1..Len(resolved), j \in 1..Len(resolved) :
          i # j => resolved[i] # resolved[j]
    /\ \E k \in 0..2 :
          \A i \in 1..Len(resolved) : PathName(resolved[i]) = ClipName(k + i - 1)

\* The name the claim gives for counter k: the sanitised name for 0, else
\* stem, "_", k, extension.
SuffixedName(first, k) ==
    IF k = 0 THEN PathName(first)
    ELSE stem(first) \o <<"_">> \o IntToStr(k) \o suffix(first)

\* The path the claim gives for counter k: the first target for 0.
SuffixedPath(first, k) ==
    IF k = 0 THEN first ELSE UPLOAD_DIR \o <<SuffixedName(first, k)>>

\* The least counter whose path does not exist.
LeastFree(first) ==
    CHOOSE k \in 0..(Cardinality(DOMAIN dir) + 1) :
        /\ ~exists(dir, SuffixedPath(first, k))
        /\ \A m \in 0..(k - 1) : exists(dir, SuffixedPath(first, m))

IsClip(response) == response.filename[1] = "c"

\* The counters k whose name ClipName(k) a seed file holds.
SeedClips ==
    {k \in 0..Len(SeedNames) :
        ClipName(k) \in DOMAIN dir /\ dir[ClipName(k)] >= SeedInode(1)}

\* The i-th counter, from 0 up, that is not in taken.
RECURSIVE NthFree(_, _)
NthFree(taken, i) ==
    LET least == CHOOSE k \in 0..Cardinality(taken) :
                     k \notin taken /\ \A m \in 0..(k - 1) : m \in taken
    IN  IF i = 1 THEN least ELSE NthFree(taken \cup {least}, i - 1)

\* Every request received so far has been answered with 200.
AllStored == (\A r \in Procs : pc[r] = "idle") /\ Len(stored) = received

\* C7: the target is the first target path if that does not exist, else
\* <stem>_<n><extension> with the least n >= 1 whose path does not exist; so
\* successful uploads of 'c.m', one after the other, are stored as c.m,
\* c_1.m, c_2.m, ... in that order, the names of seed files left out.
C7_LeastCounter ==
    /\ \A r \in Procs :
          pc[r] = "open"
          => LET first == FirstTarget(filename[r])
             IN  target[r] = SuffixedPath(first, LeastFree(first))
    /\ AllStored
       => LET clips == SelectSeq(stored, IsClip)
          IN  \A i \in 1..Len(clips) :
                 clips[i].filename = ClipName(NthFree(SeedClips, i))

\* The root held c.m; the next uploads of 'c.m' are stored as c_1.m, c_2.m.
C7_Witness ==
    /\ SeedClips = {0}
    /\ AllStored
    /\ Len(stored) = MaxUploads
    /\ \A i \in 1..Len(stored) : stored[i].filename = ClipName(i)

\* The call of the writer that raised an I/O error, if one did.
IOFailed(r) == exc[r] \in {"open", "read", "write", "close"}

EmptyName(f) == f = None \/ f = <<>> \/ f[Len(f)] = "/"

DefaultName(k) ==
    IF k = 0 THEN uploaded_file ELSE uploaded_file \o <<"_">> \o IntToStr(k)

\* C9: a missing or empty filename, or one whose last component is empty,
\* resolves to 'uploaded_file', or when that is taken to uploaded_file_<n>
\* with the least free n >= 1, as for any other name.
C9_DefaultName ==
    \A r \in Procs :
        EmptyName(filename[r])
        => /\ NameResolved(r) =>
                 \E k \in 0..(Cardinality(DOMAIN dir) + 1) :
                     target[r] = UPLOAD_DIR \o <<DefaultName(k)>>
           /\ pc[r] = "open" =>
                 \E k \in 0..(Cardinality(DOMAIN dir) + 1) :
                     /\ target[r] = UPLOAD_DIR \o <<DefaultName(k)>>
                     /\ DefaultName(k) \notin DOMAIN dir
                     /\ \A m \in 0..(k - 1) : DefaultName(m) \in DOMAIN dir

\* 'a/' resolved to uploaded_file_2, the default name and its first suffix
\* being taken.
C9_Witness ==
    \E r \in Procs :
        /\ filename[r] = <<"a", "/">>
        /\ pc[r] = "open"
        /\ target[r] = UPLOAD_DIR \o <<DefaultName(2)>>

\* C10 (as claimed): every request ends in exactly one of 200, 413 and 500,
\* and 200 is answered only after the empty chunk was read with total within
\* the limit and the file closed; at the moment of the answer a file of the
\* reported name is in the root and its length is the reported size.
C10_NoPartialSuccess ==
    [][ \A r \in Procs :
            pc[r] # "done" /\ pc'[r] = "done"
            => /\ status'[r] \in {200, 413, 500}
               /\ status'[r] = 200
                  => /\ chunk[r] = <<>>
                     /\ total[r] = Len(body[r])
                     /\ total[r] <= MAX_FILE_SIZE_BYTES
                     /\ fd[r] = 0
                     /\ stored' = Append(stored, [filename |-> PathName(target[r]),
                                                  size_bytes |-> total[r]])
                     /\ Present(target[r])
                     /\ Len(Content(target[r])) = total[r] ]_vars

\* Slot r takes the step: each action of upload_video moves the slot's pc or
\* its counter.
Acts(r) == pc'[r] # pc[r] \/ counter'[r] # counter[r]

\* C11: the path name resolution returns holds no file at that moment, and
\* whatever step a request takes, whether it ends in success or in failure,
\* every entry of the root other than its own target stays, none is added,
\* and each keeps its content: files that were in the root when the request
\* resolved its name are there unchanged when it returns; the request creates,
\* writes and deletes its own target path only.
C11_OnlyOwnTarget ==
    [][ \A r \in Procs :
            Acts(r)
            => /\ pc[r] \in {"resolve", "probe"} /\ pc'[r] = "open"
                  => ~Present(target'[r])
               /\ \A n \in DOMAIN dir \cup DOMAIN dir' :
                     n # PathName(target[r])
                     => /\ n \in DOMAIN dir /\ n \in DOMAIN dir'
                        /\ data'[dir'[n]] = data[dir[n]] ]_vars

\* The root held c.m; one upload of 'c.m' was stored beside it and the other
\* failed after writing and removed its partial file; c.m is as it was.
C11_Witness ==
    \E r \in Procs, q \in Procs :
        /\ r # q /\ pc[r] = "done" /\ pc[q] = "done"
        /\ status[r] = 200 /\ Len(body[r]) > 0
        /\ Present(target[r]) /\ Content(target[r]) = body[r]
        /\ status[q] \in {413, 500} /\ cleanup[q] = "done" /\ offset[q] > 0
        /\ target[q] # target[r]
        /\ ClipName(0) \in DOMAIN dir
        /\ dir[ClipName(0)] = SeedInode(1)
        /\ data[dir[ClipName(0)]] = SeedContent

\* The running total of slot r has gone over the limit.
OverLimit(r) == total[r] > MAX_FILE_SIZE_BYTES

\* C12: the chunk that takes the total over the limit is not written: the
\* target file and the write position never go beyond MAX_FILE_SIZE_BYTES
\* bytes, and from the moment the total is over the limit the request reads
\* no chunk and writes none; the close and unlink that follow end in 413.
C12_OverflowChunkNotWritten ==
    [][ \A r \in Procs :
            /\ offset'[r] <= MAX_FILE_SIZE_BYTES
            /\ fd'[r] # 0 => Len(data'[fd'[r]]) <= MAX_FILE_SIZE_BYTES
            /\ OverLimit(r) /\ pc[r] # "done"
               => /\ pc'[r] \notin {"read", "write", "close"}
                  /\ pos'[r] \in {pos[r], 0}
                  /\ chunk'[r] = chunk[r]
                  /\ offset'[r] = offset[r]
                  /\ fd[r] # 0 /\ fd[r] \in DOMAIN data'
                     => data'[fd[r]] = data[fd[r]]
                  /\ status'[r] # 200
            /\ pc[r] = "overflow" /\ pc'[r] = "finally" => status'[r] = 413 ]_vars

\* A body of limit + 1 bytes: exactly the limit was written in more than one
\* chunk, the last chunk took the total over the limit, 413 is on its way.
C12_Witness ==
    \E r \in Procs :
        /\ pc[r] = "finally" /\ status[r] = 413
        /\ offset[r] = MAX_FILE_SIZE_BYTES
        /\ total[r] = offset[r] + Len(chunk[r])
        /\ Len(chunk[r]) > 0
        /\ ~Present(target[r])

\* Every request has been received and has returned.
AllReturned == received = NReq /\ \A r \in Procs : pc[r] = "done"

\* C13 (as claimed): once all concurrent requests have returned, a request
\* that was answered 200 beside one that failed and ran its cleanup unlink
\* finds its file in the root under the name it reported, holding its body.
C13_CleanupSparesStored ==
    AllReturned
    => \A r \in Procs, q \in Procs :
          /\ r # q
          /\ status[r] = 200
          /\ status[q] \in {413, 500} /\ cleanup[q] = "done"
          => /\ Present(target[r])
             /\ Content(target[r]) = body[r]

\* Slot r is inside the writer, the read/write loop not yet left for good.
InWriter(r) == pc[r] \in {"open", "read", "write", "overflow", "close", "except"}

\* C14: on every way out of the writer (200, 413, 500) seek(0) is called once,
\* after the loop has ended and after the cleanup unlink of a failure; whether
\* the seek succeeds or fails, the outcome is the one set before it (the status,
\* the byte count answered on success) and the root is as the cleanup left it.
C14_SeekOnceAndSwallowed ==
    [][ \A r \in Procs :
            /\ InWriter(r)' => seeks'[r] = 0
            /\ WriterReturned(r)' => seeks'[r] = 1
            /\ pc'[r] = "finally"
               => /\ status'[r] \in {200, 413, 500}
                  /\ status'[r] \in {413, 500} => cleanup'[r] # "none"
            /\ pc[r] = "finally" /\ pc'[r] # "finally"
               => /\ pc'[r] = "done"
                  /\ seeks'[r] = seeks[r] + 1
                  /\ status'[r] = status[r] /\ total'[r] = total[r]
                  /\ cleanup'[r] = cleanup[r]
                  /\ dir' = dir /\ data' = data
                  /\ status[r] = 200
                     => stored' = Append(stored, [filename |-> PathName(target[r]),
                                                  size_bytes |-> total[r]])
                  /\ status[r] # 200 => stored' = stored ]_vars

\* A request rejected with 413 whose seek failed (the read position is where
\* the loop left it): still 413, the partial file removed, one seek made.
C14_Witness ==
    \E r \in Procs :
        /\ pc[r] = "done" /\ status[r] = 413
        /\ pos[r] > 0 /\ seeks[r] = 1
        /\ cleanup[r] = "done" /\ ~Present(target[r])

\* C15: every request the handler has taken up is answered: the suffix probe
\* stops at a counter no greater than the number of files in the root plus
\* one, the read loop goes on only while the total is within the limit, leaves
\* at the empty chunk or at the chunk that takes the total over the limit, and
\* never has read more than the limit plus one chunk, source without end
\* included.
C15_Terminates ==
    /\ [](\A r \in Procs :
             /\ counter[r] <= Cardinality(DOMAIN dir) + 1
             /\ pos[r] <= MAX_FILE_SIZE_BYTES + CHUNK_SIZE)
    /\ [][ \A r \in Procs :
              /\ pc'[r] = "read" => total'[r] <= MAX_FILE_SIZE_BYTES
              /\ pc[r] = "read" /\ pc'[r] = "close" => chunk'[r] = <<>>
              /\ pc[r] = "read" /\ pc'[r] = "overflow"
                 => total'[r] > MAX_FILE_SIZE_BYTES ]_vars
    /\ \A r \in Procs : (pc[r] = "resolve") ~> (pc[r] = "done")

\* A source without end, the name and its first suffix taken: the probe
\* stopped at counter 2, the writer stopped after limit + one chunk bytes.
C15_Witness ==
    \E r \in Procs :
        /\ Len(body[r]) = LongSrcLen
        /\ counter[r] = 2
        /\ pc[r] = "finally" /\ status[r] = 413
        /\ pos[r] = MAX_FILE_SIZE_BYTES + CHUNK_SIZE

\* C16: the writer holds one chunk of at most the chunk size (ScaledChunk
\* stands for the 1 MiB) and never more of the body: when it is about to read,
\* every byte read so far is in the file; when it is about to write or to
\* discard, the bytes read and not in the file are that one chunk; this for
\* bodies of any length, longer than a chunk and longer than the limit.
C16_OneChunkHeld ==
    \A r \in Procs :
        /\ Len(chunk[r]) <= ScaledChunk
        /\ pc[r] = "read"
           => /\ offset[r] = pos[r]
              /\ data[fd[r]] = SubSeq(body[r], 1, pos[r])
        /\ pc[r] \in {"write", "overflow"}
           => /\ chunk[r] = SubSeq(body[r], offset[r] + 1, pos[r])
              /\ pos[r] - offset[r] = Len(chunk[r])
              /\ data[fd[r]] = SubSeq(body[r], 1, offset[r])

\* A body longer than the limit, more than one chunk of it already written,
\* the next read about to be made.
C16_Witness ==
    \E r \in Procs :
        /\ pc[r] = "read"
        /\ Len(body[r]) > MAX_FILE_SIZE_BYTES
        /\ offset[r] > ScaledChunk
        /\ Len(chunk[r]) > 0

====
